---- MODULE Spec2Model ----
(***************************************************************************)
(* Model of the AI-stance analyser: the deterministic text pipeline        *)
(* (src/pdf_utils.py), the response parser, the section reconciler, the    *)
(* page slicer and the stance default-fill (src/analysis.py), and the      *)
(* orchestrator (appbackup.py).                                            *)
(*                                                                         *)
(* Strings are sequences of one-character strings.  Every component has    *)
(* its own variables and its own specification; a specification leaves the *)
(* other components' variables at their idle values.                       *)
(***************************************************************************)
EXTENDS Integers, Sequences, FiniteSets, TLC

VARIABLES
    r_pc,        \* _reconcile_sections: "group" | "resolve" | "done"
    r_n,         \* number of items the grouping loop has consumed
    r_groups,    \* the dict `groups`, in insertion order
    r_reported,  \* history: <<key, page>> for every page of every kept candidate
    r_merged0,   \* history: `merged` right after the sort (before overlap resolution)
    r_merged,    \* the list `merged`
    r_i,         \* the index of the overlap-resolution loop (Python's i)
    c_pc,        \* chunk_text_for_model: "loop" | "done"
    c_text,      \* its argument `text`
    c_target,    \* its argument `target_chars`
    c_overlap,   \* its argument `overlap_chars`
    c_start,     \* the local `start`
    c_chunks,    \* the list `chunks`; each entry also records its offsets
    s_pc,        \* combine_pages then slice_pages_text: "combine" | "slice" | "done"
    s_pages,     \* the cleaned pages: a list of PageText
    s_combined,  \* what combine_pages returned
    s_a,         \* slice_pages_text's start_page
    s_b,         \* slice_pages_text's end_page
    s_result,    \* what slice_pages_text returned
    p_pc,        \* parse_json_str: "call" | "done"
    p_s,         \* its argument
    p_result,    \* what it returned, or the exception it raised
    st_pc,       \* ai_analyse_stance: "call" | "done"
    st_title,    \* its argument section_title
    st_out,      \* what parse_json_str makes of the text generate_json returned
    st_result,   \* the record it returned
    pl_pc,       \* run_pipeline: "extract" | "segment" | "chunks" | "reconcile" |
                 \*               "stance" | "save" | "done" | "failed"
    pl_pdf,      \* the document: its cleaned pages, or unreadable
    pl_haskey,   \* whether GEMINI_API_KEY is set
    pl_only,     \* analyze_only_conclusion
    pl_combined, \* the local `combined`
    pl_chunks,   \* ai_segment_text's `chunks`
    pl_ci,       \* how many of them the loop of ai_segment_text has been through
    pl_collected,\* ai_segment_text's `collected`
    pl_skipped,  \* history: the chunks whose response raised inside the try
    pl_text,     \* the section text of the last ai_analyse_stance call
    pl_resps,    \* history: what the response of each stance call parsed to
    pl_seg,      \* the local `segmentation`
    pl_idx,      \* the loop index `idx` of the stance stage (sections done)
    pl_stance,   \* the local `stance_results`
    pl_files,    \* the output directory: what each file holds
    pl_progress, \* history: the values passed to progress_cb
    pl_status,   \* history: the messages passed to status_cb
    pl_error,    \* the exception run_pipeline re-raised, "" if none
    g_pc,        \* generate_json: "primary" | "fallback" | "returned" | "raised"
    g_model,     \* self.model_name
    g_attempt,   \* how many times _retry_wrapper has called the primary model
    g_log,       \* history: the calls made and the sleeps taken, in order
    h_pc,        \* header removal: "detect" | "remove" | "done"
    h_pages,     \* the raw pages of extract_text_from_pdf
    h_patterns,  \* what detect_repeated_headers_footers returned
    h_cleaned,   \* what remove_headers_footers_and_numbers returned
    n_pc,        \* one candidate through the loop of _reconcile_sections: "call" | "done"
    n_item,      \* the candidate
    n_groups     \* `groups` after it

rvars == <<r_pc, r_n, r_groups, r_reported, r_merged0, r_merged, r_i>>
cvars == <<c_pc, c_text, c_target, c_overlap, c_start, c_chunks>>

svars == <<s_pc, s_pages, s_combined, s_a, s_b, s_result>>
pvars == <<p_pc, p_s, p_result>>
stvars == <<st_pc, st_title, st_out, st_result>>
plvars == <<pl_pc, pl_pdf, pl_haskey, pl_only, pl_combined, pl_chunks, pl_ci,
            pl_collected, pl_skipped, pl_text, pl_resps, pl_seg, pl_idx, pl_stance,
            pl_files, pl_progress, pl_status, pl_error>>

gvars == <<g_pc, g_model, g_attempt, g_log>>

hvars == <<h_pc, h_pages, h_patterns, h_cleaned>>

nvars == <<n_pc, n_item, n_groups>>

vars == <<rvars, cvars, svars, pvars, stvars, plvars, gvars, hvars, nvars>>

\* what each component leaves alone: the variables of the others
notR == <<cvars, svars, pvars, stvars, plvars, gvars, hvars, nvars>>
notC == <<rvars, svars, pvars, stvars, plvars, gvars, hvars, nvars>>
notS == <<rvars, cvars, pvars, stvars, plvars, gvars, hvars, nvars>>
notP == <<rvars, cvars, svars, stvars, plvars, gvars, hvars, nvars>>
notSt == <<rvars, cvars, svars, pvars, plvars, gvars, hvars, nvars>>
notPl == <<rvars, cvars, svars, pvars, stvars, gvars, hvars, nvars>>
notG == <<rvars, cvars, svars, pvars, stvars, plvars, hvars, nvars>>
notH == <<rvars, cvars, svars, pvars, stvars, plvars, gvars, nvars>>
notN == <<rvars, cvars, svars, pvars, stvars, plvars, gvars, hvars>>

----------------------------------------------------------------------------
(* Bounds of the model *)

\* longest candidate list handed to _reconcile_sections
MaxItems == 3
\* largest page number a candidate reports
MaxPage == 3
\* longest text handed to chunk_text_for_model
MaxTextLen == 12
\* target_chars and overlap_chars of chunk_text_for_model.  The defaults are
\* 24000 and 1200; the model runs the same code on a scale that keeps what the
\* code relies on: overlap_chars <= int(0.3 * target_chars) < target_chars.
TargetChars == 10
OverlapChars == 1
\* most pages of a document handed to combine_pages
MaxPages == 2
\* longest page text drawn from all strings over PageChars
MaxPageLen == 2
\* longest response handed to parse_json_str, in characters of JsonChars
MaxStrLen == 5

----------------------------------------------------------------------------
(* String helpers: str.strip, str.lower, re.sub(r"\s+", " ", .) *)

Min2(a, b) == IF a <= b THEN a ELSE b
Max2(a, b) == IF a >= b THEN a ELSE b

\* the characters str.strip() and the regex class \s treat as whitespace
IsSpace(c) == c \in {" ", "\n", "\t"}

RECURSIVE LStrip(_)
LStrip(s) == IF s = <<>> THEN s
             ELSE IF IsSpace(Head(s)) THEN LStrip(Tail(s)) ELSE s

RECURSIVE RStrip(_)
RStrip(s) == IF s = <<>> THEN s
             ELSE IF IsSpace(s[Len(s)]) THEN RStrip(SubSeq(s, 1, Len(s) - 1)) ELSE s

\* str.strip()
Strip(s) == RStrip(LStrip(s))

\* str.lower() on the letters of the model's title alphabet
LowerChar(c) == CASE c = "A" -> "a"
                  [] c = "B" -> "b"
                  [] c = "C" -> "c"
                  [] OTHER -> c

Lower(s) == [i \in 1..Len(s) |-> LowerChar(s[i])]

\* `sub in s`
Contains(s, sub) == \E i \in 1..(Len(s) - Len(sub) + 1) : SubSeq(s, i, i + Len(sub) - 1) = sub

\* re.sub(r"\s+", " ", s): every maximal run of whitespace becomes one space
RECURSIVE CollapseWs(_)
CollapseWs(s) ==
    IF s = <<>> THEN s
    ELSE IF IsSpace(Head(s))
         THEN <<" ">> \o CollapseWs(LStrip(Tail(s)))
         ELSE <<Head(s)>> \o CollapseWs(Tail(s))

----------------------------------------------------------------------------
(* _reconcile_sections (src/analysis.py) *)

\* A raw page field of a candidate: an integer (anything int() accepts, as
\* the integer it yields), absent from the dict, or a value int() rejects.
RawInt(n) == [k |-> "int", v |-> n]
RawAbsent == [k |-> "absent", v |-> 0]
RawBad == [k |-> "bad", v |-> 0]

\* int(it.get("start_page", 1)), 1 on any exception
CoerceStart(raw) == IF raw.k = "int" THEN raw.v ELSE 1

\* int(it.get("end_page", sp)), sp on any exception
CoerceEnd(raw, sp) == IF raw.k = "int" THEN raw.v ELSE sp

\* re.sub(r"\s+", " ", title.lower()) of the stripped title
TitleKey(title) == CollapseWs(Lower(title))

\* the candidate normalized without line 171, ep = max(sp, ep)
NormalizeItem_NoEndClamp(it) ==
    LET title == Strip(it.title)
        sp0 == CoerceStart(it.start_page)
        ep0 == CoerceEnd(it.end_page, sp0)
        sp == Max2(1, sp0)
    IN [title |-> title, key |-> TitleKey(title), start_page |-> sp,
        end_page |-> ep0, summary |-> Strip(it.summary)]

\* lines 157-171: the normalized candidate (title stripped, key, clamped pages)
NormalizeItem(it) ==
    LET title == Strip(it.title)
        sp0 == CoerceStart(it.start_page)
        ep0 == CoerceEnd(it.end_page, sp0)
        sp == Max2(1, sp0)
        ep == Max2(sp, ep0)
    IN [title |-> title, key |-> TitleKey(title), start_page |-> sp,
        end_page |-> ep, summary |-> Strip(it.summary)]

\* index of the group with this key, 0 when `key not in groups`
GroupIndex(groups, key) ==
    IF \E j \in 1..Len(groups) : groups[j].key = key
    THEN CHOOSE j \in 1..Len(groups) : groups[j].key = key
    ELSE 0

\* the merge of a candidate into its existing group, lines 175-178, with the
\* start taken from the newest candidate instead of the minimum
MergeIntoGroup_LastStart(g, c) ==
    [g EXCEPT !.start_page = c.start_page,
              !.end_page = Max2(g.end_page, c.end_page),
              !.summaries = IF c.summary # <<>> THEN Append(g.summaries, c.summary)
                            ELSE g.summaries]

\* lines 175-178: min start, max end, summary appended when non-empty
MergeIntoGroup(g, c) ==
    [g EXCEPT !.start_page = Min2(g.start_page, c.start_page),
              !.end_page = Max2(g.end_page, c.end_page),
              !.summaries = IF c.summary # <<>> THEN Append(g.summaries, c.summary)
                            ELSE g.summaries]

\* line 173: a new group
NewGroup(c) ==
    [key |-> c.key, title |-> c.title, start_page |-> c.start_page,
     end_page |-> c.end_page,
     summaries |-> IF c.summary # <<>> THEN <<c.summary>> ELSE <<>>]

\* the loop body with `key not in groups` taken as always true
GroupStep_NoDedup(groups, it) ==
    IF ~it.isdict THEN groups
    ELSE LET c == NormalizeItem(it) IN
         IF c.title = <<>> THEN groups ELSE Append(groups, NewGroup(c))

\* lines 154-178: one iteration of the grouping loop
GroupStep(groups, it) ==
    IF ~it.isdict THEN groups
    ELSE LET c == NormalizeItem(it)
             j == GroupIndex(groups, c.key)
         IN IF c.title = <<>> THEN groups
            ELSE IF j = 0 THEN Append(groups, NewGroup(c))
            ELSE [groups EXCEPT ![j] = MergeIntoGroup(groups[j], c)]

\* " ".join(summaries)
RECURSIVE JoinSpace(_)
JoinSpace(ss) == IF ss = <<>> THEN <<>>
                 ELSE IF Len(ss) = 1 THEN ss[1]
                 ELSE ss[1] \o <<" ">> \o JoinSpace(Tail(ss))

\* the [:1200] of line 187
SummaryMaxChars == 1200

\* lines 181-189
MergedOf(groups) ==
    [j \in 1..Len(groups) |->
        LET joined == JoinSpace(groups[j].summaries) IN
        [title |-> groups[j].title, start_page |-> groups[j].start_page,
         end_page |-> groups[j].end_page,
         summary |-> SubSeq(joined, 1, Min2(Len(joined), SummaryMaxChars))]]

\* the sort key of line 191 compared: (start_page, end_page) of a > that of b
KeyGreater(a, b) ==
    \/ a.start_page > b.start_page
    \/ a.start_page = b.start_page /\ a.end_page > b.end_page

\* x put before the first element whose key is greater (a stable insertion)
RECURSIVE InsertSorted(_, _)
InsertSorted(s, x) ==
    IF s = <<>> THEN <<x>>
    ELSE IF KeyGreater(Head(s), x) THEN <<x>> \o s
    ELSE <<Head(s)>> \o InsertSorted(Tail(s), x)

RECURSIVE SortFrom(_, _)
SortFrom(done, rest) ==
    IF rest = <<>> THEN done ELSE SortFrom(InsertSorted(done, Head(rest)), Tail(rest))

\* the list left in dict order
SortMerged_Unsorted(m) == m

\* line 191: list.sort(key=(start_page, end_page)), stable
SortMerged(m) == SortFrom(<<>>, m)

\* the overlap fix moving the start onto the predecessor's last page
ResolveOne_OffByOne(prev, cur) ==
    IF cur.start_page <= prev.end_page
    THEN [cur EXCEPT !.start_page = prev.end_page,
                     !.end_page = Max2(prev.end_page, cur.end_page)]
    ELSE cur

\* the overlap fix without the end_page repair of lines 196-197
ResolveOne_NoEndFix(prev, cur) ==
    IF cur.start_page <= prev.end_page
    THEN [cur EXCEPT !.start_page = prev.end_page + 1]
    ELSE cur

\* lines 193-197: cur after the overlap check against prev
ResolveOne(prev, cur) ==
    IF cur.start_page <= prev.end_page
    THEN LET s == prev.end_page + 1 IN
         [cur EXCEPT !.start_page = s,
                     !.end_page = IF s > cur.end_page THEN s ELSE cur.end_page]
    ELSE cur

\* one iteration of the loop of line 192; i is Python's index (1..len-1)
ResolveAt(m, i) == [m EXCEPT ![i + 1] = ResolveOne(m[i], m[i + 1])]

RECURSIVE ResolveFrom(_, _)
ResolveFrom(m, i) == IF i >= Len(m) THEN m ELSE ResolveFrom(ResolveAt(m, i), i + 1)

RECURSIVE GroupAll(_, _)
GroupAll(groups, items) ==
    IF items = <<>> THEN groups ELSE GroupAll(GroupStep(groups, Head(items)), Tail(items))

\* _reconcile_sections as a function of its argument
ReconcileSections(items) == ResolveFrom(SortMerged(MergedOf(GroupAll(<<>>, items))), 1)

(* The candidates the reconciler is run on.  Titles are raw strings: two     *)
(* spellings of the key "ab", the keys "a b" and "c", and two titles that    *)
(* are empty after stripping.                                                *)
Titles == { <<>>, <<" ">>,
            <<"A", "b">>, <<" ", "a", "B", " ">>,
            <<"a", " ", " ", "b">>,
            <<"c">> }

\* the raw page fields the reconciler is run on: absent, 0 (clamped) and 1..MaxPage
RawPages == {RawAbsent} \cup {RawInt(n) : n \in 0..MaxPage}

\* the candidates: every title with every pair of page fields and no summary,
\* two candidates that carry a summary, and an entry that is not a dict
Items == [isdict : {TRUE}, title : Titles, start_page : RawPages,
          end_page : RawPages, summary : { <<>> }]
         \cup {[isdict |-> TRUE, title |-> <<"c">>, start_page |-> RawInt(1),
                end_page |-> RawInt(1), summary |-> <<" ", "s">>],
               [isdict |-> TRUE, title |-> <<"c">>, start_page |-> RawInt(2),
                end_page |-> RawBad, summary |-> <<"s">>]}
         \cup {[isdict |-> FALSE, title |-> <<>>, start_page |-> RawAbsent,
                end_page |-> RawAbsent, summary |-> <<>>]}

\* the pages a kept candidate reports, tagged with its key
ReportedBy(it) ==
    IF ~it.isdict THEN {}
    ELSE LET c == NormalizeItem(it) IN
         IF c.title = <<>> THEN {}
         ELSE {<<c.key, p>> : p \in c.start_page..c.end_page}

InitReconcile ==
    /\ r_pc = "group"
    /\ r_n = 0
    /\ r_groups = <<>>
    /\ r_reported = {}
    /\ r_merged0 = <<>>
    /\ r_merged = <<>>
    /\ r_i = 0

IdleReconcile ==
    /\ r_pc = "idle"
    /\ r_n = 0
    /\ r_groups = <<>>
    /\ r_reported = {}
    /\ r_merged0 = <<>>
    /\ r_merged = <<>>
    /\ r_i = 0

\* one iteration of `for it in items or []`
GroupItem ==
    /\ r_pc = "group"
    /\ r_n < MaxItems
    /\ \E it \in Items :
          /\ r_groups' = GroupStep(r_groups, it)
          /\ r_reported' = r_reported \cup ReportedBy(it)
    /\ r_n' = r_n + 1
    /\ UNCHANGED <<r_pc, r_merged0, r_merged, r_i, notR>>

\* the items are exhausted: lines 180-191
MergeAndSort ==
    /\ r_pc = "group"
    /\ r_merged' = SortMerged(MergedOf(r_groups))
    /\ r_merged0' = r_merged'
    /\ r_i' = 1
    /\ r_pc' = "resolve"
    /\ UNCHANGED <<r_n, r_groups, r_reported, notR>>

\* one iteration of `for i in range(1, len(merged))`
ResolveStep ==
    /\ r_pc = "resolve"
    /\ r_i < Len(r_merged)
    /\ r_merged' = ResolveAt(r_merged, r_i)
    /\ r_i' = r_i + 1
    /\ UNCHANGED <<r_pc, r_n, r_groups, r_reported, r_merged0, notR>>

\* line 198
ReturnMerged ==
    /\ r_pc = "resolve"
    /\ r_i >= Len(r_merged)
    /\ r_pc' = "done"
    /\ UNCHANGED <<r_n, r_groups, r_reported, r_merged0, r_merged, r_i, notR>>


----------------------------------------------------------------------------
(* chunk_text_for_model (src/pdf_utils.py).  Offsets are Python's, 0-based. *)

\* text[i:i+2] == "\n\n"
ParaBreakAt(text, i) ==
    /\ i + 2 <= Len(text)
    /\ text[i + 1] = "\n"
    /\ text[i + 2] = "\n"

\* text.rfind("\n\n", start, end): the highest i with start <= i and
\* i + 2 <= end at which the text holds a paragraph break, or -1
RFind(text, start, end) ==
    LET hits == {i \in start..(end - 2) : ParaBreakAt(text, i)} IN
    IF hits = {} THEN -1 ELSE CHOOSE i \in hits : \A j \in hits : j <= i

\* int(0.3 * target_chars)
MinBreakOffset(target) == (3 * target) \div 10

\* the boundary taken at any paragraph break found, however early in the window
ChooseBoundary_AnyBreak(text, start, target) ==
    LET end == Min2(start + target, Len(text))
        b == RFind(text, start, end)
    IN IF b = -1 THEN end ELSE b

\* lines 69-72: the hard end of the window unless a paragraph break lies
\* more than 30% of the target into it
ChooseBoundary(text, start, target) ==
    LET end == Min2(start + target, Len(text))
        b == RFind(text, start, end)
    IN IF b = -1 \/ b <= start + MinBreakOffset(target) THEN end ELSE b

\* the next chunk started after the paragraph break instead of before it
NextStart_SkipBreak(boundary, overlap) == boundary + overlap

\* line 77
NextStart(boundary, overlap) == Max2(0, boundary - overlap)

\* text[a:b]
Slice(text, a, b) == SubSeq(text, a + 1, b)

TextChars == {"x", "\n"}

RECURSIVE SeqsUpTo(_, _)
SeqsUpTo(S, n) ==
    IF n = 0 THEN { <<>> }
    ELSE LET shorter == SeqsUpTo(S, n - 1) IN
         shorter \cup {Append(q, c) : q \in {r \in shorter : Len(r) = n - 1}, c \in S}

InitChunk ==
    /\ c_pc = "loop"
    /\ c_target = TargetChars
    /\ c_overlap = OverlapChars
    /\ c_start = 0
    /\ c_chunks = <<>>
    /\ c_text \in SeqsUpTo(TextChars, MaxTextLen)

IdleChunk ==
    /\ c_pc = "idle"
    /\ c_text = <<>>
    /\ c_target = TargetChars
    /\ c_overlap = OverlapChars
    /\ c_start = 0
    /\ c_chunks = <<>>

\* one iteration of `while start < n`, lines 69-77
ChunkStep ==
    /\ c_pc = "loop"
    /\ c_start < Len(c_text)
    /\ LET boundary == ChooseBoundary(c_text, c_start, c_target) IN
          /\ c_chunks' = Append(c_chunks, [start |-> c_start, stop |-> boundary,
                                           text |-> Slice(c_text, c_start, boundary)])
          /\ IF boundary = Len(c_text)
             THEN c_pc' = "done" /\ c_start' = c_start
             ELSE c_pc' = "loop" /\ c_start' = NextStart(boundary, c_overlap)
    /\ UNCHANGED <<c_text, c_target, c_overlap, notC>>

\* the loop condition fails: line 78
ChunkExit ==
    /\ c_pc = "loop"
    /\ c_start >= Len(c_text)
    /\ c_pc' = "done"
    /\ UNCHANGED <<c_text, c_target, c_overlap, c_start, c_chunks, notC>>


----------------------------------------------------------------------------
(* combine_pages (src/pdf_utils.py) and slice_pages_text (src/analysis.py), *)
(* on characters: the marker is the ten-odd characters "<<PAGE n>>".        *)

DigitChars == <<"0", "1", "2", "3", "4", "5", "6", "7", "8", "9">>
IsDigit(c) == \E d \in 1..10 : DigitChars[d] = c
DigitVal(c) == (CHOOSE d \in 1..10 : DigitChars[d] = c) - 1

\* str(n) for n >= 0
RECURSIVE FormatInt(_)
FormatInt(n) ==
    IF n < 10 THEN <<DigitChars[n + 1]>>
    ELSE FormatInt(n \div 10) \o <<DigitChars[(n % 10) + 1]>>

\* int(digits) for a non-empty string of digits
RECURSIVE ParseInt(_)
ParseInt(ds) ==
    IF Len(ds) = 1 THEN DigitVal(ds[1])
    ELSE 10 * ParseInt(SubSeq(ds, 1, Len(ds) - 1)) + DigitVal(ds[Len(ds)])

MarkerOpen == <<"<", "<", "P", "A", "G", "E">>
MarkerClose == <<">", ">">>

\* f"<<PAGE {page_num}>>"
FormatMarker(n) == MarkerOpen \o <<" ">> \o FormatInt(n) \o MarkerClose

\* text[i:i+len(lit)] == lit  (i is 0-based)
LitAt(text, i, lit) ==
    /\ i + Len(lit) <= Len(text)
    /\ \A k \in 1..Len(lit) : text[i + k] = lit[k]

\* the first offset >= i at which the character is not of the class (or len(text))
RECURSIVE SkipWhile(_, _, _)
SkipWhile(text, i, digits) ==
    IF i >= Len(text) THEN i
    ELSE IF (IF digits THEN IsDigit(text[i + 1]) ELSE IsSpace(text[i + 1]))
         THEN SkipWhile(text, i + 1, digits)
         ELSE i

\* the regex <<PAGE\s+(\d+)>> matched at offset i: whether it matches, the
\* captured number and the offset after the match
MarkerAt(text, i) ==
    IF ~LitAt(text, i, MarkerOpen) THEN [ok |-> FALSE, num |-> 0, end |-> i]
    ELSE LET ws == i + Len(MarkerOpen)
             ds == SkipWhile(text, ws, FALSE)
             de == SkipWhile(text, ds, TRUE)
         IN IF ds > ws /\ de > ds /\ LitAt(text, de, MarkerClose)
            THEN [ok |-> TRUE, num |-> ParseInt(Slice(text, ds, de)),
                  end |-> de + Len(MarkerClose)]
            ELSE [ok |-> FALSE, num |-> 0, end |-> i]

\* re.split(r"<<PAGE\s+(\d+)>>", full_text) without its first part: the
\* <<number, text up to the next marker>> pairs, in order.  open says whether
\* a marker has been seen (the text before the first one is parts[0]).
RECURSIVE SplitPages(_, _, _, _)
SplitPages(text, i, open, acc) ==
    IF i >= Len(text) THEN acc
    ELSE LET mt == MarkerAt(text, i) IN
         IF mt.ok
         THEN SplitPages(text, mt.end, TRUE, Append(acc, [pnum |-> mt.num, ptext |-> <<>>]))
         ELSE IF open
              THEN SplitPages(text, i + 1, open,
                              [acc EXCEPT ![Len(acc)].ptext = Append(@, text[i + 1])])
              ELSE SplitPages(text, i + 1, open, acc)

\* "\n\n".join(parts)
RECURSIVE JoinBlank(_)
JoinBlank(ps) == IF ps = <<>> THEN <<>>
                 ELSE IF Len(ps) = 1 THEN ps[1]
                 ELSE ps[1] \o <<"\n", "\n">> \o JoinBlank(Tail(ps))

\* lines 58-62 of pdf_utils.py
CombinePages(pages) ==
    JoinBlank([j \in 1..Len(pages) |->
                  FormatMarker(pages[j].page_num) \o <<"\n">> \o pages[j].text])

\* the sub-sequence of the elements that satisfy Keep, in order
RECURSIVE SelectInRange(_, _, _)
SelectInRange(parts, a, b) ==
    IF parts = <<>> THEN <<>>
    ELSE (IF a <= Head(parts).pnum /\ Head(parts).pnum <= b
          THEN <<Strip(Head(parts).ptext)>> ELSE <<>>)
         \o SelectInRange(Tail(parts), a, b)

\* lines 228-239 of analysis.py
SlicePagesText(full_text, start_page, end_page) ==
    JoinBlank(SelectInRange(SplitPages(full_text, 0, FALSE, <<>>), start_page, end_page))

PageChars == {"x", " ", "\n"}

\* the page texts: every string over PageChars up to MaxPageLen, and two
\* pages whose own text holds the characters of a page marker
PageTexts ==
    SeqsUpTo(PageChars, MaxPageLen)
    \cup { <<"x">> \o FormatMarker(2) \o <<"y">>,
           FormatMarker(1) \o <<"\n", "z">> }

\* the documents: pages numbered 1..n as extract_text_from_pdf numbers them
Documents ==
    UNION { {[j \in 1..n |-> [page_num |-> j, text |-> f[j]]] : f \in [1..n -> PageTexts]}
            : n \in 0..MaxPages }

InitSlice ==
    /\ s_pc = "combine"
    /\ s_pages \in Documents
    /\ s_combined = <<>>
    /\ s_a = 0
    /\ s_b = 0
    /\ s_result = <<>>

IdleSlice ==
    /\ s_pc = "idle"
    /\ s_pages = <<>>
    /\ s_combined = <<>>
    /\ s_a = 0
    /\ s_b = 0
    /\ s_result = <<>>

\* combined_text = combine_pages(cleaned_pages)
DoCombinePages ==
    /\ s_pc = "combine"
    /\ s_combined' = CombinePages(s_pages)
    /\ s_pc' = "slice"
    /\ UNCHANGED <<s_pages, s_a, s_b, s_result, notS>>

\* slice_pages_text(combined, a, b) for any a <= b, in or out of the document
DoSlicePagesText ==
    /\ s_pc = "slice"
    /\ \E a \in 0..(MaxPages + 1) : \E b \in a..(MaxPages + 1) :
          /\ s_a' = a
          /\ s_b' = b
          /\ s_result' = SlicePagesText(s_combined, a, b)
    /\ s_pc' = "done"
    /\ UNCHANGED <<s_pages, s_combined, notS>>

----------------------------------------------------------------------------
(* parse_json_str (src/analysis.py).  A response is a string over JsonChars; *)
(* the element "FENCE" stands for three backticks in a row, so the responses *)
(* are those whose backticks come in runs of three (Markdown fences).        *)

Fence == "FENCE"
JsonChars == {"[", "]", "{", "}", "\"", "\\", "1", Fence, " "}

Raised(e) == [kind |-> e, text |-> <<>>]
Returned(v) == [kind |-> "value", text |-> v]

\* the first index >= i (1-based) that holds no JSON whitespace, or Len + 1
RECURSIVE SkipWs(_, _)
SkipWs(t, i) == IF i <= Len(t) /\ IsSpace(t[i]) THEN SkipWs(t, i + 1) ELSE i

\* the index after the string whose opening quote precedes i, 0 if the text
\* is no JSON string: of \-escapes the alphabet can spell only \" and \\
RECURSIVE JsonStringEnd(_, _)
JsonStringEnd(t, i) ==
    IF i > Len(t) THEN 0
    ELSE IF t[i] = "\"" THEN i + 1
    ELSE IF t[i] = "\\"
         THEN IF i + 1 <= Len(t) /\ t[i + 1] \in {"\"", "\\"}
              THEN JsonStringEnd(t, i + 2) ELSE 0
    ELSE JsonStringEnd(t, i + 1)

RECURSIVE JsonDigitsEnd(_, _)
JsonDigitsEnd(t, i) == IF i <= Len(t) /\ t[i] = "1" THEN JsonDigitsEnd(t, i + 1) ELSE i

\* the index after the JSON value that starts at i, 0 if none does.  Without
\* "," and ":" in the alphabet an array holds at most one element and an
\* object none.
RECURSIVE JsonValueEnd(_, _)
JsonValueEnd(t, i) ==
    IF i > Len(t) THEN 0
    ELSE IF t[i] = "1" THEN JsonDigitsEnd(t, i)
    ELSE IF t[i] = "\"" THEN JsonStringEnd(t, i + 1)
    ELSE IF t[i] = "["
         THEN LET j == SkipWs(t, i + 1) IN
              IF j <= Len(t) /\ t[j] = "]" THEN j + 1
              ELSE LET k == JsonValueEnd(t, j)
                       l == SkipWs(t, k)
                   IN IF k # 0 /\ l <= Len(t) /\ t[l] = "]" THEN l + 1 ELSE 0
    ELSE IF t[i] = "{"
         THEN LET j == SkipWs(t, i + 1) IN
              IF j <= Len(t) /\ t[j] = "}" THEN j + 1 ELSE 0
    ELSE 0

\* the value a valid JSON text denotes, as the text without the whitespace
\* outside its strings
RECURSIVE JsonCanon(_, _, _)
JsonCanon(t, i, in_str) ==
    IF i > Len(t) THEN <<>>
    ELSE IF in_str
         THEN IF t[i] = "\\" /\ i + 1 <= Len(t)
              THEN <<t[i], t[i + 1]>> \o JsonCanon(t, i + 2, TRUE)
              ELSE <<t[i]>> \o JsonCanon(t, i + 1, t[i] # "\"")
    ELSE IF IsSpace(t[i]) THEN JsonCanon(t, i + 1, FALSE)
    ELSE <<t[i]>> \o JsonCanon(t, i + 1, t[i] = "\"")

\* json.loads(t): one value, whitespace allowed around it, nothing else
IsJson(t) ==
    LET e == JsonValueEnd(t, SkipWs(t, 1)) IN e # 0 /\ SkipWs(t, e) = Len(t) + 1

JsonLoads(t) == IF IsJson(t) THEN Returned(JsonCanon(t, 1, FALSE)) ELSE Raised("JSONDecodeError")

\* re.search of line 119: six backticks in a row, that is two adjacent fences
SixBackticks(s) == \E i \in 1..(Len(s) - 1) : s[i] = Fence /\ s[i + 1] = Fence

\* the scan of lines 122-148 from index i (1-based) on; start = 0 is None
RECURSIVE ScanFrom(_, _, _, _, _, _)
ScanFrom(candidate, i, start, depth, in_str, esc) ==
    IF i > Len(candidate) THEN JsonLoads(candidate)
    ELSE LET ch == candidate[i] IN
         IF start = 0
         THEN IF ch \in {"[", "{"}
              THEN ScanFrom(candidate, i + 1, i, 1, in_str, esc)
              ELSE ScanFrom(candidate, i + 1, start, depth, in_str, esc)
         ELSE IF in_str
              THEN IF esc THEN ScanFrom(candidate, i + 1, start, depth, in_str, FALSE)
                   ELSE IF ch = "\\" THEN ScanFrom(candidate, i + 1, start, depth, in_str, TRUE)
                   ELSE IF ch = "\"" THEN ScanFrom(candidate, i + 1, start, depth, FALSE, esc)
                   ELSE ScanFrom(candidate, i + 1, start, depth, in_str, esc)
         ELSE IF ch = "\"" THEN ScanFrom(candidate, i + 1, start, depth, TRUE, esc)
         ELSE IF ch \in {"[", "{"} THEN ScanFrom(candidate, i + 1, start, depth + 1, in_str, esc)
         ELSE IF ch \in {"]", "}"}
              THEN IF depth - 1 = 0
                   THEN JsonLoads(SubSeq(candidate, start, i))
                   ELSE ScanFrom(candidate, i + 1, start, depth - 1, in_str, esc)
         ELSE ScanFrom(candidate, i + 1, start, depth, in_str, esc)

\* lines 118-149.  The pattern of line 119 has no group, so m.group(1) of
\* line 120 raises IndexError whenever the pattern matches.
ParseJsonStr(s0) ==
    LET s == Strip(s0) IN
    IF SixBackticks(s) THEN Raised("IndexError")
    ELSE ScanFrom(s, 1, 0, 0, FALSE, FALSE)

InitParse ==
    /\ p_pc = "call"
    /\ p_s \in SeqsUpTo(JsonChars, MaxStrLen)
    /\ p_result = Raised("none")

IdleParse ==
    /\ p_pc = "idle"
    /\ p_s = <<>>
    /\ p_result = Raised("none")

\* parse_json_str(s)
DoParseJsonStr ==
    /\ p_pc = "call"
    /\ p_result' = ParseJsonStr(p_s)
    /\ p_pc' = "done"
    /\ UNCHANGED <<p_s, notP>>

----------------------------------------------------------------------------
(* ai_analyse_stance (src/analysis.py).  The text the service returned is    *)
(* taken as what parse_json_str makes of it: an exception, or a JSON value.  *)

Categories == <<"hedges", "boosters", "attitude_markers", "self_mentions">>
CategorySet == {Categories[j] : j \in 1..Len(Categories)}

\* A value under a category key: absent, a non-list (null, a string), or a
\* list; a list's elements are {word, sentence} objects ("entry") or values
\* that are no objects ("str").
Absent == [t |-> "absent", elems |-> <<>>]
NonLists == {[t |-> "null", elems |-> <<>>], [t |-> "str", elems |-> <<>>]}
ListOf(es) == [t |-> "list", elems |-> es]
EntryLists == {ListOf(<<>>), ListOf(<<"entry">>), ListOf(<<"entry", "entry">>)}
MixedLists == {ListOf(<<"str">>), ListOf(<<"entry", "str">>)}
CatValues == {Absent} \cup NonLists \cup EntryLists \cup MixedLists

\* a key of a JSON object: missing, or present with a value
Missing == <<>>
Present(v) == <<v>>
\* dict.setdefault(key, d) read back
SetDefault(opt, d) == IF opt = Missing THEN d ELSE opt[1]

\* a parsed JSON value, as far as ai_analyse_stance looks at it
JsonObject(section, summary, cats) ==
    [type |-> "object", section |-> section, summary |-> summary, cats |-> cats]
JsonOther(type) ==
    [type |-> type, section |-> Missing, summary |-> Missing,
     cats |-> [k \in CategorySet |-> Absent]]

\* lines 260-267: the record of the except branch
ParseFailedRecord(section_title) ==
    [section |-> section_title, summary |-> "Parsing failed",
     cats |-> [k \in CategorySet |-> ListOf(<<>>)]]

\* line 254-255 with the isinstance test left out
FillCategory_AbsentOnly(v) == IF v.t = "absent" THEN ListOf(<<>>) ELSE v

\* lines 254-255: data[k] = [] unless data[k] is a list
FillCategory(v) == IF v.t # "list" THEN ListOf(<<>>) ELSE v

\* lines 252-258 on a parsed value: the filled dict, or the TypeError that
\* `k not in data` / `data[k]` / `data[k] = []` raise on a list, a string, a
\* number, a bool or null
FillDefaults(data, section_title) ==
    IF data.type # "object" THEN Raised("TypeError")
    ELSE Returned([section |-> SetDefault(data.section, section_title),
                   summary |-> SetDefault(data.summary, ""),
                   cats |-> [k \in CategorySet |-> FillCategory(data.cats[k])]])

\* lines 251-267: out is Raised(e) when parse_json_str raised, else the value
AiAnalyseStance(section_title, out) ==
    IF out.kind # "value" THEN ParseFailedRecord(section_title)
    ELSE LET filled == FillDefaults(out.text, section_title) IN
         IF filled.kind # "value" THEN ParseFailedRecord(section_title)
         ELSE filled.text

\* what parse_json_str can make of a response
StanceObjects ==
    {JsonObject(sec, sm, cats) :
        sec \in {Missing, Present(<<"o", "w", "n">>)}, sm \in {Missing, Present("sum")},
        cats \in [CategorySet -> CatValues]}
StanceOutcomes ==
    {Raised("JSONDecodeError"), Raised("IndexError")}
    \cup {Returned(JsonOther(t)) : t \in {"array", "string", "number", "null"}}
    \cup {Returned(o) : o \in StanceObjects}

InitStance ==
    /\ st_pc = "call"
    /\ st_title = <<"I", "n", "t", "r", "o">>
    /\ st_result = ParseFailedRecord(<<>>)
    /\ st_out \in StanceOutcomes

IdleStance ==
    /\ st_pc = "idle"
    /\ st_title = <<>>
    /\ st_out = Raised("none")
    /\ st_result = ParseFailedRecord(<<>>)

\* ai_analyse_stance(section_title, section_text) once generate_json returned
DoAnalyseStance ==
    /\ st_pc = "call"
    /\ st_result' = AiAnalyseStance(st_title, st_out)
    /\ st_pc' = "done"
    /\ UNCHANGED <<st_title, st_out, notSt>>

----------------------------------------------------------------------------
(* detect_repeated_headers_footers and remove_headers_footers_and_numbers    *)
(* (src/pdf_utils.py)                                                        *)

\* line 22: the defaults top_n_lines = 2 and bottom_n_lines = 2
TopNLines == 2
BottomNLines == 2

\* str.splitlines, for "\n"
RECURSIVE SplitLinesFrom(_, _, _, _)
SplitLinesFrom(text, i, cur, acc) ==
    IF i > Len(text) THEN (IF cur = <<>> THEN acc ELSE Append(acc, cur))
    ELSE IF text[i] = "\n" THEN SplitLinesFrom(text, i + 1, <<>>, Append(acc, cur))
    ELSE SplitLinesFrom(text, i + 1, Append(cur, text[i]), acc)
SplitLines(text) == SplitLinesFrom(text, 1, <<>>, <<>>)

\* "\n".join
RECURSIVE JoinNewline(_)
JoinNewline(ls) == IF ls = <<>> THEN <<>>
                   ELSE IF Len(ls) = 1 THEN ls[1]
                   ELSE ls[1] \o <<"\n">> \o JoinNewline(Tail(ls))

\* line 26: the stripped non-blank lines of a page
StrippedLines(text) ==
    LET ls == SplitLines(text)
        stripped == [j \in 1..Len(ls) |-> Strip(ls[j])]
    IN SelectSeq(stripped, LAMBDA ln : ln # <<>>)

\* line 29: " ".join(lines[:n]), for a page with lines
TopSignature(lines, n) == JoinSpace(SubSeq(lines, 1, Min2(n, Len(lines))))

\* line 30
BottomSignature(lines, n) ==
    IF Len(lines) >= n THEN JoinSpace(SubSeq(lines, Len(lines) - n + 1, Len(lines)))
    ELSE <<>>

\* a Counter: its keys in insertion order with their counts; lines 31-32
CountAdd(counter, key) ==
    IF key = <<>> THEN counter
    ELSE IF \E j \in 1..Len(counter) : counter[j].key = key
    THEN [j \in 1..Len(counter) |->
             IF counter[j].key = key THEN [key |-> key, n |-> counter[j].n + 1]
             ELSE counter[j]]
    ELSE Append(counter, [key |-> key, n |-> 1])

\* lines 33-34: most_common(1), the first inserted key among the most
\* frequent, "" for an empty counter
MostCommon(counter) ==
    IF counter = <<>> THEN <<>>
    ELSE LET best == CHOOSE j \in 1..Len(counter) :
                        /\ \A k \in 1..Len(counter) : counter[k].n <= counter[j].n
                        /\ \A k \in 1..(j - 1) : counter[k].n < counter[j].n
         IN counter[best].key

\* lines 25-32 over the pages from page i on
RECURSIVE CountSignatures(_, _, _, _)
CountSignatures(pages, i, top_counter, bot_counter) ==
    IF i > Len(pages) THEN [top |-> top_counter, bot |-> bot_counter]
    ELSE LET lines == StrippedLines(pages[i].text) IN
         IF lines = <<>> THEN CountSignatures(pages, i + 1, top_counter, bot_counter)
         ELSE CountSignatures(pages, i + 1,
                              CountAdd(top_counter, TopSignature(lines, TopNLines)),
                              CountAdd(bot_counter, BottomSignature(lines, BottomNLines)))

\* lines 22-35: the two patterns; re.escape makes each match as literal text
DetectRepeatedHeadersFooters(pages) ==
    LET counters == CountSignatures(pages, 1, <<>>, <<>>) IN
    [header |-> MostCommon(counters.top), footer |-> MostCommon(counters.bot)]

\* lines 39-40, 48, 50: re.search of an escaped pattern with re.IGNORECASE
SearchIgnoreCase(pattern, s) == pattern # <<>> /\ Contains(Lower(s), Lower(pattern))

\* line 41: digits only, or roman-numeral letters only
RomanChars == {"i", "v", "x", "l", "c", "d", "m", "I", "V", "X", "L", "C", "D", "M"}
IsPageNumber(s) ==
    /\ s # <<>>
    /\ \/ \A j \in 1..Len(s) : IsDigit(s[j])
       \/ \A j \in 1..Len(s) : s[j] \in RomanChars

\* lines 44-54: the line is kept
KeepLine(ln, patterns) ==
    LET s == Strip(ln) IN
    /\ s # <<>>
    /\ ~SearchIgnoreCase(patterns.header, s)
    /\ ~SearchIgnoreCase(patterns.footer, s)
    /\ ~IsPageNumber(s)

\* lines 37-56
RemoveHeadersFootersAndNumbers(pages, patterns) ==
    [j \in 1..Len(pages) |->
        [page_num |-> pages[j].page_num,
         text |-> JoinNewline(SelectSeq(SplitLines(pages[j].text),
                                        LAMBDA ln : KeepLine(ln, patterns)))]]

\* lines 80-85 after extract_text_from_pdf
ExtractTextPipeline(raw_pages) ==
    CombinePages(RemoveHeadersFootersAndNumbers(raw_pages,
                                                DetectRepeatedHeadersFooters(raw_pages)))

\* the lines of the raw pages: a running head, two lines of content, a
\* centred page number, a blank line
RunningHead == <<"B", " ", "H">>
RawLines == {RunningHead, <<"a">>, <<"e">>, <<" ", "1", " ">>, <<>>}
MaxPageLines == 3
MaxDocPages == 2
\* the page texts of at most max_lines lines, the documents of 1..max_pages pages
RawPageTexts(max_lines) == {JoinNewline(ls) : ls \in SeqsUpTo(RawLines, max_lines)}
RawDocuments(max_pages, max_lines) ==
    UNION { {[j \in 1..n |-> [page_num |-> j, text |-> f[j]]] :
                f \in [1..n -> RawPageTexts(max_lines)]}
            : n \in 1..max_pages }

InitHeader ==
    /\ h_pc = "detect"
    /\ h_patterns = [header |-> <<>>, footer |-> <<>>]
    /\ h_cleaned = <<>>
    /\ h_pages \in RawDocuments(MaxDocPages, MaxPageLines)

IdleHeader ==
    /\ h_pc = "idle"
    /\ h_pages = <<>>
    /\ h_patterns = [header |-> <<>>, footer |-> <<>>]
    /\ h_cleaned = <<>>

\* line 82 of extract_text_pipeline
DoDetect ==
    /\ h_pc = "detect"
    /\ h_patterns' = DetectRepeatedHeadersFooters(h_pages)
    /\ h_pc' = "remove"
    /\ UNCHANGED <<h_pages, h_cleaned, notH>>

\* line 83 of extract_text_pipeline
DoRemove ==
    /\ h_pc = "remove"
    /\ h_cleaned' = RemoveHeadersFootersAndNumbers(h_pages, h_patterns)
    /\ h_pc' = "done"
    /\ UNCHANGED <<h_pages, h_patterns, notH>>

----------------------------------------------------------------------------
(* run_pipeline (appbackup.py) with ai_segment_text (src/analysis.py) and    *)
(* save_json / save_csv_stance (src/io_utils.py).  A document is given by    *)
(* the page texts extract_text_from_pdf reads from it; a call of             *)
(* generate_json either raises or returns a text, taken as what              *)
(* parse_json_str makes of it.                                               *)

ConclusionWord == <<"c", "o", "n", "c", "l", "u", "s", "i", "o", "n">>

\* line 52: the section is left out of the stance stage
SkippedByFilter(only, title) == only /\ ~Contains(Lower(title), ConclusionWord)

\* lines 64-78 of pdf_utils.py as a function (the loop of ChunkStep / ChunkExit)
RECURSIVE ChunkTextForModel(_, _, _)
ChunkTextForModel(text, start, chunks) ==
    IF start >= Len(text) THEN chunks
    ELSE LET boundary == ChooseBoundary(text, start, TargetChars)
             more == Append(chunks, Slice(text, start, boundary))
         IN IF boundary = Len(text) THEN more
            ELSE ChunkTextForModel(text, NextStart(boundary, OverlapChars), more)

\* a parsed segmentation response: an object, an array of items, or a scalar
SegObject(it) == [type |-> "object", items |-> <<it>>]
SegArray(its) == [type |-> "array", items |-> its]
SegOther(type) == [type |-> type, items |-> <<>>]

\* lines 216-224: the response raised inside the try (parse_json_str raised,
\* or `for it in arr` raised TypeError on a number or null)
RaisedInTry(out) == out.kind # "value" \/ out.text.type \in {"number", "null"}

\* lines 217-224: what one response adds to `collected`; a string is iterated
\* character by character and holds no dict
CollectFrom(out) ==
    IF RaisedInTry(out) \/ out.text.type = "string" THEN <<>>
    ELSE SelectSeq(out.text.items, LAMBDA it : it.isdict)

\* the progress of a section with the division by `total` left out
SectionProgress_NoTotal(idx, nsections) == 60 + 35 * idx

\* lines 49, 54, 60 of appbackup.py: int(60 + 35 * (idx / total))
SectionProgress(idx, nsections) == 60 + (35 * idx) \div Max2(nsections, 1)

\* lines 12-21 of io_utils.py: the rows of one category of one record
CatRows(item, cat) ==
    [j \in 1..Len(item.cats[cat].elems) |-> [section |-> item.section, category |-> cat]]
ItemRows(item) ==
    CatRows(item, Categories[1]) \o CatRows(item, Categories[2])
    \o CatRows(item, Categories[3]) \o CatRows(item, Categories[4])
RECURSIVE CsvRows(_)
CsvRows(items) == IF items = <<>> THEN <<>> ELSE ItemRows(Head(items)) \o CsvRows(Tail(items))

\* line 19: ex.get on a list element that is no dict
HasNonDictEntry(items) ==
    \E i \in 1..Len(items) : \E k \in CategorySet :
        \E j \in 1..Len(items[i].cats[k].elems) : items[i].cats[k].elems[j] # "entry"

\* lines 10-26 of io_utils.py: the rows written, or the AttributeError raised
\* while the rows are built, before the file is opened
SaveCsvStance(items) ==
    IF HasNonDictEntry(items) THEN Raised("AttributeError") ELSE Returned(CsvRows(items))

\* the output directory
FileNames == {"segmentation.json", "stance.json", "stance.csv"}
NoFile == [written |-> FALSE, data |-> <<>>]
File(data) == [written |-> TRUE, data |-> data]

\* the documents the pipeline is run on: one fitz cannot open, and readable
\* ones of no page, one page and two pages
Unreadable == [readable |-> FALSE, pages |-> <<>>]
Readable(texts) ==
    [readable |-> TRUE,
     pages |-> [j \in 1..Len(texts) |-> [page_num |-> j, text |-> texts[j]]]]
PipeDocuments ==
    {Unreadable, Readable(<<>>), Readable(<< <<"a", "\n", "e">> >>),
     Readable(<< <<"a", "\n", "1">>, <<"e", "\n", "a", "\n", "2">> >>)}

\* the candidates the service reports
CandIntro == [isdict |-> TRUE, title |-> <<"A", "b">>, start_page |-> RawInt(1),
              end_page |-> RawInt(1), summary |-> <<>>]
CandIntroLong == [isdict |-> TRUE, title |-> <<"a", "B", " ">>, start_page |-> RawInt(1),
                  end_page |-> RawInt(2), summary |-> <<>>]
CandConclusion == [isdict |-> TRUE, title |-> <<"C">> \o Tail(ConclusionWord),
                   start_page |-> RawInt(2), end_page |-> RawAbsent, summary |-> <<"s">>]
NotADict == [isdict |-> FALSE, title |-> <<>>, start_page |-> RawAbsent,
             end_page |-> RawAbsent, summary |-> <<>>]

\* what a segmentation response can parse to
SegOutcomes ==
    {Raised("JSONDecodeError"), Returned(SegOther("number")),
     Returned(SegObject(CandConclusion)), Returned(SegArray(<<CandIntro>>)),
     Returned(SegArray(<<NotADict, CandIntroLong>>))}

\* what a stance response can parse to
OnlyHedges(v) == [k \in CategorySet |-> IF k = "hedges" THEN v ELSE Absent]
PipeStanceOutcomes ==
    {Raised("JSONDecodeError"), Returned(JsonOther("array")),
     Returned(JsonObject(Missing, Missing, OnlyHedges(ListOf(<<"entry">>)))),
     Returned(JsonObject(Present(<<"o", "w", "n">>), Present("sum"),
                         [k \in CategorySet |-> ListOf(<<"entry">>)])),
     Returned(JsonObject(Missing, Missing, OnlyHedges(ListOf(<<"str">>))))}

InitPipeline ==
    /\ pl_pc = "extract"
    /\ pl_combined = <<>>
    /\ pl_chunks = <<>>
    /\ pl_ci = 0
    /\ pl_collected = <<>>
    /\ pl_skipped = <<>>
    /\ pl_text = <<>>
    /\ pl_resps = <<>>
    /\ pl_seg = <<>>
    /\ pl_idx = 0
    /\ pl_stance = <<>>
    /\ pl_files = [f \in FileNames |-> NoFile]
    /\ pl_progress = <<>>
    /\ pl_status = <<>>
    /\ pl_error = ""
    /\ pl_haskey \in BOOLEAN
    /\ pl_only \in BOOLEAN
    /\ pl_pdf \in PipeDocuments

IdlePipeline ==
    /\ pl_pc = "idle"
    /\ pl_pdf = Unreadable
    /\ pl_haskey = FALSE
    /\ pl_only = FALSE
    /\ pl_combined = <<>>
    /\ pl_chunks = <<>>
    /\ pl_ci = 0
    /\ pl_collected = <<>>
    /\ pl_skipped = <<>>
    /\ pl_text = <<>>
    /\ pl_resps = <<>>
    /\ pl_seg = <<>>
    /\ pl_idx = 0
    /\ pl_stance = <<>>
    /\ pl_files = [f \in FileNames |-> NoFile]
    /\ pl_progress = <<>>
    /\ pl_status = <<>>
    /\ pl_error = ""

\* the arguments of run_pipeline and the environment
plin == <<pl_pdf, pl_haskey, pl_only>>

\* the except branch without its status_cb call
Abort_Silent(e, status) ==
    /\ pl_status' = status
    /\ pl_error' = e
    /\ pl_pc' = "failed"

\* lines 71-74: the except branch, after the messages in `status`
Abort(e, status) ==
    /\ pl_status' = Append(status, "Error")
    /\ pl_error' = e
    /\ pl_pc' = "failed"

\* lines 28-33: stage 0; fitz.open raises on a file it cannot read
PlExtract ==
    /\ pl_pc = "extract"
    /\ pl_progress' = Append(pl_progress, 10)
    /\ IF pl_pdf.readable
       THEN /\ pl_combined' = ExtractTextPipeline(pl_pdf.pages)
            /\ pl_status' = Append(pl_status, "Extracting")
            /\ pl_pc' = "segment"
            /\ pl_error' = pl_error
       ELSE /\ pl_combined' = pl_combined
            /\ Abort("DocumentOpenError", Append(pl_status, "Extracting"))
    /\ UNCHANGED <<plin, pl_chunks, pl_ci, pl_collected, pl_skipped, pl_text, pl_resps,
                   pl_seg, pl_idx, pl_stance, pl_files, notPl>>

\* lines 36-40 and 205-207 of analysis.py: GeminiClient() raises RuntimeError
\* without an API key, else the text is chunked
PlSegmentStart ==
    /\ pl_pc = "segment"
    /\ pl_progress' = Append(pl_progress, 40)
    /\ IF pl_haskey
       THEN /\ pl_chunks' = ChunkTextForModel(pl_combined, 0, <<>>)
            /\ pl_status' = Append(pl_status, "Segmenting")
            /\ pl_pc' = "chunks"
            /\ pl_error' = pl_error
       ELSE /\ pl_chunks' = pl_chunks
            /\ Abort("RuntimeError", Append(pl_status, "Segmenting"))
    /\ UNCHANGED <<plin, pl_combined, pl_ci, pl_collected, pl_skipped, pl_text, pl_resps,
                   pl_seg, pl_idx, pl_stance, pl_files, notPl>>

\* lines 208-224 of analysis.py: one chunk whose generate_json call returned
PlSegmentChunk ==
    /\ pl_pc = "chunks"
    /\ pl_ci < Len(pl_chunks)
    /\ \E out \in SegOutcomes :
          /\ pl_collected' = pl_collected \o CollectFrom(out)
          /\ pl_skipped' = IF RaisedInTry(out) THEN Append(pl_skipped, pl_ci + 1)
                           ELSE pl_skipped
    /\ pl_ci' = pl_ci + 1
    /\ UNCHANGED <<plin, pl_pc, pl_combined, pl_chunks, pl_text, pl_resps, pl_seg, pl_idx,
                   pl_stance, pl_files, pl_progress, pl_status, pl_error, notPl>>

\* lines 210-215 of analysis.py: generate_json raised (retries and fallback
\* failed); the call is outside the try of line 216
PlSegmentServiceFails ==
    /\ pl_pc = "chunks"
    /\ pl_ci < Len(pl_chunks)
    /\ Abort("ServiceError", pl_status)
    /\ UNCHANGED <<plin, pl_combined, pl_chunks, pl_ci, pl_collected, pl_skipped, pl_text,
                   pl_resps, pl_seg, pl_idx, pl_stance, pl_files, pl_progress, notPl>>

\* line 225 of analysis.py and lines 42-49: reconcile, save segmentation.json
PlReconcile ==
    /\ pl_pc = "chunks"
    /\ pl_ci = Len(pl_chunks)
    /\ pl_seg' = ReconcileSections(pl_collected)
    /\ pl_files' = [pl_files EXCEPT !["segmentation.json"] = File(pl_seg')]
    /\ pl_status' = Append(pl_status, "Analyzing")
    /\ pl_pc' = "stance"
    /\ UNCHANGED <<plin, pl_combined, pl_chunks, pl_ci, pl_collected, pl_skipped, pl_text,
                   pl_resps, pl_idx, pl_stance, pl_progress, pl_error, notPl>>

\* lines 50-55: a section the conclusion filter leaves out
PlSkipSection ==
    /\ pl_pc = "stance"
    /\ pl_idx < Len(pl_seg)
    /\ SkippedByFilter(pl_only, pl_seg[pl_idx + 1].title)
    /\ pl_progress' = Append(pl_progress, SectionProgress(pl_idx + 1, Len(pl_seg)))
    /\ pl_idx' = pl_idx + 1
    /\ UNCHANGED <<plin, pl_pc, pl_combined, pl_chunks, pl_ci, pl_collected, pl_skipped,
                   pl_text, pl_resps, pl_seg, pl_stance, pl_files, pl_status, pl_error,
                   notPl>>

\* lines 50-60: a section analysed, its generate_json call having returned
PlAnalyseSection ==
    /\ pl_pc = "stance"
    /\ pl_idx < Len(pl_seg)
    /\ LET seg == pl_seg[pl_idx + 1] IN
          /\ ~SkippedByFilter(pl_only, seg.title)
          /\ pl_text' = SlicePagesText(pl_combined, seg.start_page, seg.end_page)
          /\ \E out \in PipeStanceOutcomes :
                /\ pl_resps' = Append(pl_resps, out)
                /\ pl_stance' = Append(pl_stance, AiAnalyseStance(seg.title, out))
    /\ pl_progress' = Append(pl_progress, SectionProgress(pl_idx + 1, Len(pl_seg)))
    /\ pl_idx' = pl_idx + 1
    /\ UNCHANGED <<plin, pl_pc, pl_combined, pl_chunks, pl_ci, pl_collected, pl_skipped,
                   pl_seg, pl_files, pl_status, pl_error, notPl>>

\* lines 56-57 and 245-250 of analysis.py: generate_json raised in the stance
\* stage, outside the try of line 251
PlStanceServiceFails ==
    /\ pl_pc = "stance"
    /\ pl_idx < Len(pl_seg)
    /\ LET seg == pl_seg[pl_idx + 1] IN
          /\ ~SkippedByFilter(pl_only, seg.title)
          /\ pl_text' = SlicePagesText(pl_combined, seg.start_page, seg.end_page)
    /\ Abort("ServiceError", pl_status)
    /\ UNCHANGED <<plin, pl_combined, pl_chunks, pl_ci, pl_collected, pl_skipped,
                   pl_resps, pl_seg, pl_idx, pl_stance, pl_files, pl_progress, notPl>>

\* lines 62-70: stance.json is written, then stance.csv unless building its
\* rows raises; then progress 100 and "Done"
PlSave ==
    /\ pl_pc = "stance"
    /\ pl_idx = Len(pl_seg)
    /\ LET csv == SaveCsvStance(pl_stance) IN
          IF csv.kind = "value"
          THEN /\ pl_files' = [pl_files EXCEPT !["stance.json"] = File(pl_stance),
                                               !["stance.csv"] = File(csv.text)]
               /\ pl_progress' = Append(pl_progress, 100)
               /\ pl_status' = Append(pl_status, "Done")
               /\ pl_pc' = "done"
               /\ pl_error' = pl_error
          ELSE /\ pl_files' = [pl_files EXCEPT !["stance.json"] = File(pl_stance)]
               /\ pl_progress' = pl_progress
               /\ Abort(csv.kind, pl_status)
    /\ UNCHANGED <<plin, pl_combined, pl_chunks, pl_ci, pl_collected, pl_skipped, pl_text,
                   pl_resps, pl_seg, pl_idx, pl_stance, notPl>>

----------------------------------------------------------------------------
(* GeminiClient.generate_json and _retry_wrapper (src/ai_clients.py).  Time  *)
(* is counted in tenths of a second.                                         *)

\* line 8: the default of GENAI_MAX_RETRIES
MAX_RETRIES == 5
\* line 9: the default of GENAI_BASE_DELAY, 1.0 s
BaseDelayTenths == 10
\* line 66: the 15.0 s ceiling of one sleep
SleepCapTenths == 150
\* line 10: the default of GEMINI_FALLBACK_MODEL
FALLBACK_MODEL == "gemini-2.0-flash"
\* line 14: the models a client is made for: the default one, and the one
\* that is also the fallback
ModelNames == {"gemini-2.5-flash-lite", FALLBACK_MODEL}

\* line 65: 0.7 + 0.6 * random.random() lies in [0.7, 1.3); in tenths
JitterTenths == {7, 10, 12}

RECURSIVE Pow2(_)
Pow2(n) == IF n = 0 THEN 1 ELSE 2 * Pow2(n - 1)

\* lines 64-65: the delay after failed attempt number `attempt`
BackoffDelay(attempt, jitter) == (BaseDelayTenths * Pow2(attempt - 1) * jitter) \div 10

\* the sleep taken without the ceiling of line 66
SleepTime_NoCap(attempt, jitter) == BackoffDelay(attempt, jitter)

\* line 66: time.sleep(min(delay, 15.0))
SleepTime(attempt, jitter) == Min2(BackoffDelay(attempt, jitter), SleepCapTenths)

\* line 79: a fallback model is configured and is not the primary one
HasFallback(model) == FALLBACK_MODEL # "" /\ FALLBACK_MODEL # model

Event(ev, v) == [ev |-> ev, v |-> v]

InitRetry ==
    /\ g_pc = "primary"
    /\ g_attempt = 0
    /\ g_log = <<>>
    /\ g_model \in ModelNames

IdleRetry ==
    /\ g_pc = "idle"
    /\ g_model = ""
    /\ g_attempt = 0
    /\ g_log = <<>>

\* lines 55-57: an attempt on the primary model that returns
PrimaryReturns ==
    /\ g_pc = "primary"
    /\ g_attempt < MAX_RETRIES
    /\ g_attempt' = g_attempt + 1
    /\ g_log' = Append(g_log, Event("primary_ok", g_attempt + 1))
    /\ g_pc' = "returned"
    /\ UNCHANGED <<g_model, notG>>

\* lines 58-68 and 71-72: an attempt that fails with a transient error; the
\* wrapper sleeps, then goes on to the next attempt or, after the last one,
\* raises the error to generate_json
PrimaryTransient ==
    /\ g_pc = "primary"
    /\ g_attempt < MAX_RETRIES
    /\ g_attempt' = g_attempt + 1
    /\ \E jitter \in JitterTenths :
          g_log' = g_log \o <<Event("primary_transient", g_attempt + 1),
                              Event("sleep", SleepTime(g_attempt + 1, jitter))>>
    /\ g_pc' = IF g_attempt + 1 < MAX_RETRIES THEN "primary" ELSE "fallback"
    /\ UNCHANGED <<g_model, notG>>

\* lines 58-62 and 69-72: an attempt that fails with another error is not
\* retried; the error is raised to generate_json
PrimaryFatal ==
    /\ g_pc = "primary"
    /\ g_attempt < MAX_RETRIES
    /\ g_attempt' = g_attempt + 1
    /\ g_log' = Append(g_log, Event("primary_fatal", g_attempt + 1))
    /\ g_pc' = "fallback"
    /\ UNCHANGED <<g_model, notG>>

\* lines 78-80: the one call of the fallback model returns
FallbackReturns ==
    /\ g_pc = "fallback"
    /\ HasFallback(g_model)
    /\ g_log' = Append(g_log, Event("fallback_ok", 0))
    /\ g_pc' = "returned"
    /\ UNCHANGED <<g_model, g_attempt, notG>>

\* lines 78-80: the one call of the fallback model raises, to the caller
FallbackFails ==
    /\ g_pc = "fallback"
    /\ HasFallback(g_model)
    /\ g_log' = Append(g_log, Event("fallback_failed", 0))
    /\ g_pc' = "raised"
    /\ UNCHANGED <<g_model, g_attempt, notG>>

\* lines 78-81: no fallback model other than the primary; the error of the
\* primary attempts is re-raised
NoFallback ==
    /\ g_pc = "fallback"
    /\ ~HasFallback(g_model)
    /\ g_pc' = "raised"
    /\ UNCHANGED <<g_model, g_attempt, g_log, notG>>

----------------------------------------------------------------------------
(* The first iteration of the loop of _reconcile_sections (lines 156-179 of  *)
(* src/analysis.py): one candidate met with `groups` empty.                  *)

\* the raw page fields: absent, not an integer, and the integers -1..MaxPage
AnyRawPages == {RawAbsent, RawBad} \cup {RawInt(n) : n \in -1..MaxPage}

\* the candidates: every title with every pair of page fields, and an entry
\* that is not a dict
AnyItems ==
    [isdict : {TRUE}, title : Titles, start_page : AnyRawPages, end_page : AnyRawPages,
     summary : { <<>> }]
    \cup {[isdict |-> FALSE, title |-> <<>>, start_page |-> RawAbsent,
           end_page |-> RawAbsent, summary |-> <<>>]}

InitNormalize ==
    /\ n_pc = "call"
    /\ n_groups = <<>>
    /\ n_item \in AnyItems

IdleNormalize ==
    /\ n_pc = "idle"
    /\ n_item = [isdict |-> FALSE, title |-> <<>>, start_page |-> RawAbsent,
                 end_page |-> RawAbsent, summary |-> <<>>]
    /\ n_groups = <<>>

\* lines 156-179 for the first candidate
GroupFirstItem ==
    /\ n_pc = "call"
    /\ n_groups' = GroupStep(n_groups, n_item)
    /\ n_pc' = "done"
    /\ UNCHANGED <<n_item, notN>>

\*%% components above

----------------------------------------------------------------------------
(* Specifications: one per component *)

\* _reconcile_sections run on a candidate list
StartReconcile == InitReconcile /\ IdleChunk /\ IdleSlice /\ IdleParse /\ IdleStance /\ IdleRetry /\ IdleHeader /\ IdleNormalize /\ IdlePipeline
NextReconcile == GroupItem \/ MergeAndSort \/ ResolveStep \/ ReturnMerged
SpecReconcile == StartReconcile /\ [][NextReconcile]_vars

\* chunk_text_for_model run on a text
StartChunk == IdleReconcile /\ InitChunk /\ IdleSlice /\ IdleParse /\ IdleStance /\ IdleRetry /\ IdleHeader /\ IdleNormalize /\ IdlePipeline
NextChunk == ChunkStep \/ ChunkExit
SpecChunk == StartChunk /\ [][NextChunk]_vars

\* combine_pages followed by slice_pages_text
StartSlice == IdleReconcile /\ IdleChunk /\ InitSlice /\ IdleParse /\ IdleStance /\ IdleRetry /\ IdleHeader /\ IdleNormalize /\ IdlePipeline
NextSlice == DoCombinePages \/ DoSlicePagesText
SpecSlice == StartSlice /\ [][NextSlice]_vars

\* parse_json_str run on a response
StartParse == IdleReconcile /\ IdleChunk /\ IdleSlice /\ InitParse /\ IdleStance /\ IdleRetry /\ IdleHeader /\ IdleNormalize /\ IdlePipeline
NextParse == DoParseJsonStr
SpecParse == StartParse /\ [][NextParse]_vars

\* ai_analyse_stance run on a response
StartStance == IdleReconcile /\ IdleChunk /\ IdleSlice /\ IdleParse /\ IdlePipeline /\ IdleRetry /\ IdleHeader /\ IdleNormalize /\ InitStance
NextStance == DoAnalyseStance
SpecStance == StartStance /\ [][NextStance]_vars

\* one run of run_pipeline
StartPipeline == IdleReconcile /\ IdleChunk /\ IdleSlice /\ IdleParse /\ IdleStance /\ IdleRetry /\ IdleHeader /\ IdleNormalize /\ InitPipeline
NextPipeline ==
    \/ PlExtract \/ PlSegmentStart \/ PlSegmentChunk \/ PlSegmentServiceFails
    \/ PlReconcile \/ PlSkipSection \/ PlAnalyseSection \/ PlStanceServiceFails \/ PlSave
SpecPipeline == StartPipeline /\ [][NextPipeline]_vars

\* one call of generate_json
StartRetry == IdleReconcile /\ IdleChunk /\ IdleSlice /\ IdleParse /\ IdleStance /\ IdlePipeline /\ IdleHeader /\ IdleNormalize /\ InitRetry
NextRetry ==
    \/ PrimaryReturns \/ PrimaryTransient \/ PrimaryFatal
    \/ FallbackReturns \/ FallbackFails \/ NoFallback
SpecRetry == StartRetry /\ [][NextRetry]_vars

\* header and footer removal run on a document
StartHeader == IdleReconcile /\ IdleChunk /\ IdleSlice /\ IdleParse /\ IdleStance /\ IdlePipeline /\ IdleRetry /\ IdleNormalize /\ InitHeader
NextHeader == DoDetect \/ DoRemove
SpecHeader == StartHeader /\ [][NextHeader]_vars

\* one candidate normalized
StartNormalize == IdleReconcile /\ IdleChunk /\ IdleSlice /\ IdleParse /\ IdleStance /\ IdlePipeline /\ IdleRetry /\ IdleHeader /\ InitNormalize
NextNormalize == GroupFirstItem
SpecNormalize == StartNormalize /\ [][NextNormalize]_vars

\* chunk_text_for_model run on the combined text of a document, on a scale on
\* which, as with the defaults 24000 and 1200, a page can be shorter than the
\* overlap and several pages fit into one window
AnchoredTarget == 40
AnchoredOverlap == 4
LongPage == [j \in 1..20 |-> "w"]
AnchoredPageTexts == { <<>>, <<"s">>, <<"w", "w", "w", "w", "w">>, LongPage }
AnchoredDocuments ==
    UNION { {[j \in 1..n |-> [page_num |-> j, text |-> f[j]]] :
                f \in [1..n -> AnchoredPageTexts]}
            : n \in 0..3 }
StartChunkAnchored ==
    /\ IdleReconcile /\ IdleSlice /\ IdleParse /\ IdleStance /\ IdlePipeline
    /\ IdleRetry /\ IdleHeader /\ IdleNormalize
    /\ c_pc = "loop"
    /\ c_target = AnchoredTarget
    /\ c_overlap = AnchoredOverlap
    /\ c_start = 0
    /\ c_chunks = <<>>
    /\ c_text \in {CombinePages(d) : d \in AnchoredDocuments}
SpecChunkAnchored == StartChunkAnchored /\ [][NextChunk]_vars

----------------------------------------------------------------------------
(* Properties of _reconcile_sections *)

\* the keys and pages the consumed candidates reported
ReportedKeys == {kp[1] : kp \in r_reported}
ReportedPages(key) == {kp[2] : kp \in {x \in r_reported : x[1] = key}}
MinOf(S) == CHOOSE x \in S : \A y \in S : x <= y
MaxOf(S) == CHOOSE x \in S : \A y \in S : x >= y
SectionsWithKey(key) == {i \in 1..Len(r_merged) : TitleKey(r_merged[i].title) = key}

(* C1: the list returned by _reconcile_sections is ordered by start_page and  *)
(* every section starts after the page its predecessor ends on.               *)
C1_NonOverlap ==
    r_pc = "done" =>
        \A i \in 1..(Len(r_merged) - 1) :
            /\ r_merged[i].start_page <= r_merged[i + 1].start_page
            /\ r_merged[i + 1].start_page > r_merged[i].end_page

\* a returned list in which the sorted groups overlapped and were pulled apart
C1_Witness ==
    /\ r_pc = "done"
    /\ Len(r_merged) >= 3
    /\ \E i \in 1..(Len(r_merged0) - 1) :
          r_merged0[i + 1].start_page <= r_merged0[i].end_page

(* C2: candidates with the same normalized title yield exactly one section   *)
(* (no two sections share a normalized title), and when all kept candidates  *)
(* share one normalized title the single section runs from the least         *)
(* reported start page to the greatest reported end page.                    *)
C2_MergeByTitle ==
    r_pc = "done" =>
        /\ \A i, j \in 1..Len(r_merged) :
              i # j => TitleKey(r_merged[i].title) # TitleKey(r_merged[j].title)
        /\ \A key \in ReportedKeys : Cardinality(SectionsWithKey(key)) = 1
        /\ Cardinality(ReportedKeys) = 1 =>
              /\ Len(r_merged) = 1
              /\ \A key \in ReportedKeys :
                    /\ r_merged[1].start_page = MinOf(ReportedPages(key))
                    /\ r_merged[1].end_page = MaxOf(ReportedPages(key))

\* two candidates of one title with disjoint spans [1,1] and [3,3] became [1,3]
C2_Witness ==
    /\ r_pc = "done"
    /\ Cardinality(ReportedKeys) = 1
    /\ \E key \in ReportedKeys : ReportedPages(key) = {1, 3}
    /\ Len(r_merged) = 1
    /\ r_merged[1].start_page = 1
    /\ r_merged[1].end_page = 3

(* C3 as stated: every returned section has 1 <= start_page <= end_page, and  *)
(* overlap resolution moves a start_page forward only, never past the         *)
(* end_page the section had when the resolution began.                        *)
C3_Original ==
    r_pc = "done" =>
        \A i \in 1..Len(r_merged) :
            /\ r_merged[i].start_page >= 1
            /\ r_merged[i].start_page <= r_merged[i].end_page
            /\ r_merged[i].start_page >= r_merged0[i].start_page
            /\ r_merged[i].start_page <= r_merged0[i].end_page

(* C3 amended: every returned section has 1 <= start_page <= end_page;        *)
(* overlap resolution never moves a start_page backward and never lowers an   *)
(* end_page; a start_page moved past the section's merged end_page takes the  *)
(* end_page with it (end_page = start_page).                                  *)
C3_Amended ==
    r_pc = "done" =>
        /\ Len(r_merged) = Len(r_merged0)
        /\ \A i \in 1..Len(r_merged) :
              /\ r_merged[i].start_page >= 1
              /\ r_merged[i].start_page <= r_merged[i].end_page
              /\ r_merged[i].start_page >= r_merged0[i].start_page
              /\ r_merged[i].end_page >= r_merged0[i].end_page
              /\ r_merged[i].start_page > r_merged0[i].end_page
                    => r_merged[i].end_page = r_merged[i].start_page
              /\ r_merged[i].start_page <= r_merged0[i].end_page
                    => r_merged[i].end_page = r_merged0[i].end_page

\* a section whose start_page was pushed past its merged end_page
C3_Witness ==
    /\ r_pc = "done"
    /\ \E i \in 1..Len(r_merged) : r_merged[i].start_page > r_merged0[i].end_page

----------------------------------------------------------------------------
(* Properties of chunk_text_for_model *)

CeilDiv(a, b) == (a + b - 1) \div b
HasParaBreak(text) == \E i \in 0..Len(text) : ParaBreakAt(text, i)

(* C4 as stated: the number of chunks never exceeds                           *)
(* ceil(length / (target - overlap)).                                         *)
C4_Original ==
    Len(c_chunks) <= CeilDiv(Len(c_text), TargetChars - OverlapChars)

(* C4 amended: the loop appends at most                                       *)
(* ceil(length / (int(0.3 * target) + 1 - overlap)) chunks (with the defaults *)
(* ceil(length / 6001)), so it terminates; for a text without a paragraph     *)
(* break the number of chunks is at most ceil(length / (target - overlap)).   *)
C4_Amended ==
    /\ Len(c_chunks) <= CeilDiv(Len(c_text), MinBreakOffset(TargetChars) + 1 - OverlapChars)
    /\ ~HasParaBreak(c_text) =>
          Len(c_chunks) <= CeilDiv(Len(c_text), TargetChars - OverlapChars)
    /\ c_pc = "loop" => c_start < Len(c_text) \/ Len(c_text) = 0
    /\ \A i \in 1..(Len(c_chunks) - 1) : c_chunks[i + 1].start > c_chunks[i].start

\* a finished run that cut at paragraph breaks and returned more chunks than
\* ceil(length / (target - overlap))
C4_Witness ==
    /\ c_pc = "done"
    /\ Len(c_chunks) > CeilDiv(Len(c_text), TargetChars - OverlapChars)
    /\ Len(c_chunks) >= 3

\* the chunks put back together: each chunk without the prefix it shares
\* with its predecessor
RECURSIVE Reassemble(_, _)
Reassemble(chunks, i) ==
    IF i > Len(chunks) THEN <<>>
    ELSE LET shared == IF i = 1 THEN 0 ELSE chunks[i - 1].stop - chunks[i].start IN
         SubSeq(chunks[i].text, shared + 1, Len(chunks[i].text)) \o Reassemble(chunks, i + 1)

(* C5: the chunks are substrings of the text; the first starts at offset 0,   *)
(* the last ends at the end of the text, each chunk starts at or before the   *)
(* end of its predecessor, the chunks minus the shared prefixes give back the *)
(* text, and no chunk is longer than the target size.                         *)
C5_Coverage ==
    c_pc = "done" =>
        /\ \A i \in 1..Len(c_chunks) :
              /\ c_chunks[i].text = Slice(c_text, c_chunks[i].start, c_chunks[i].stop)
              /\ Len(c_chunks[i].text) <= TargetChars
              /\ Len(c_chunks[i].text) = c_chunks[i].stop - c_chunks[i].start
        /\ c_chunks # <<>> =>
              /\ c_chunks[1].start = 0
              /\ c_chunks[Len(c_chunks)].stop = Len(c_text)
        /\ \A i \in 1..(Len(c_chunks) - 1) :
              /\ c_chunks[i + 1].start <= c_chunks[i].stop
              /\ c_chunks[i + 1].start >= 0
        /\ Reassemble(c_chunks, 1) = c_text

\* a finished run of three chunks, cut at paragraph breaks, each sharing a
\* non-empty prefix with its predecessor
C5_Witness ==
    /\ c_pc = "done"
    /\ Len(c_chunks) >= 3
    /\ \E i \in 1..(Len(c_chunks) - 1) : ParaBreakAt(c_text, c_chunks[i].stop)
    /\ \A i \in 1..(Len(c_chunks) - 1) : c_chunks[i + 1].start < c_chunks[i].stop

----------------------------------------------------------------------------
(* Properties of combine_pages and slice_pages_text *)

\* the trimmed texts of the pages numbered a..b, in order
RECURSIVE TrimmedTexts(_, _, _)
TrimmedTexts(pages, a, b) ==
    IF pages = <<>> THEN <<>>
    ELSE (IF a <= Head(pages).page_num /\ Head(pages).page_num <= b
          THEN <<RStrip(LStrip(Head(pages).text))>> ELSE <<>>)
         \o TrimmedTexts(Tail(pages), a, b)

(* C6: slice_pages_text(combine_pages(pages), a, b) is the trimmed texts of   *)
(* the pages numbered a..b joined by a blank line; page numbers outside the   *)
(* document contribute nothing.                                               *)
C6_RoundTrip ==
    s_pc = "done" => s_result = JoinBlank(TrimmedTexts(s_pages, s_a, s_b))

\* the same, for documents none of whose pages holds a page marker of its own
C6_MarkerFree ==
    (s_pc = "done" /\ \A j \in 1..Len(s_pages) : s_pages[j].text \in SeqsUpTo(PageChars, MaxPageLen))
        => s_result = JoinBlank(TrimmedTexts(s_pages, s_a, s_b))

----------------------------------------------------------------------------
(* Properties of parse_json_str *)

FenceIndexes(s) == {i \in 1..Len(s) : s[i] = Fence}
HasFencedBlock(s) == Cardinality(FenceIndexes(s)) >= 2
FirstFence(s) == CHOOSE i \in FenceIndexes(s) : \A j \in FenceIndexes(s) : i <= j
SecondFence(s) ==
    CHOOSE i \in FenceIndexes(s) \ {FirstFence(s)} :
        \A j \in FenceIndexes(s) \ {FirstFence(s)} : i <= j
\* the contents of the first fenced block
FencedContent(s) == SubSeq(s, FirstFence(s) + 1, SecondFence(s) - 1)
\* a JSON object or array
IsJsonContainer(t) == IsJson(t) /\ t[SkipWs(t, 1)] \in {"[", "{"}

(* C7: for a response that holds a fenced block whose contents are a JSON    *)
(* object or array, parse_json_str returns that value, whatever the prose    *)
(* around the block holds.                                                   *)
C7_FencedBlockWins ==
    (p_pc = "done" /\ HasFencedBlock(p_s) /\ IsJsonContainer(FencedContent(p_s)))
        => p_result = JsonLoads(FencedContent(p_s))

\* whether the scan finds a region at which the depth returns to zero
RECURSIVE HasBalancedRegion(_, _, _, _, _, _)
HasBalancedRegion(c, i, start, depth, in_str, esc) ==
    IF i > Len(c) THEN FALSE
    ELSE IF start = 0
         THEN HasBalancedRegion(c, i + 1, IF c[i] \in {"[", "{"} THEN i ELSE 0,
                                IF c[i] \in {"[", "{"} THEN 1 ELSE 0, FALSE, FALSE)
    ELSE IF in_str
         THEN HasBalancedRegion(c, i + 1, start, depth,
                                esc \/ c[i] # "\"", ~esc /\ c[i] = "\\")
    ELSE IF c[i] \in {"]", "}"} /\ depth = 1 THEN TRUE
    ELSE HasBalancedRegion(c, i + 1, start,
                           IF c[i] \in {"[", "{"} THEN depth + 1
                           ELSE IF c[i] \in {"]", "}"} THEN depth - 1 ELSE depth,
                           c[i] = "\"", FALSE)

(* C8: parse_json_str either returns a value or raises the JSON decode       *)
(* error, nothing else; a response without a fence and without a balanced    *)
(* bracketed region is parsed whole, as it stands.                           *)
C8_ParseWholeOrDecodeError ==
    p_pc = "done" =>
        /\ p_result.kind \in {"value", "JSONDecodeError"}
        /\ (FenceIndexes(p_s) = {}
            /\ ~HasBalancedRegion(Strip(p_s), 1, 0, 0, FALSE, FALSE))
              => p_result = JsonLoads(Strip(p_s))

----------------------------------------------------------------------------
(* Properties of ai_analyse_stance *)

(* C9: whatever the service's text parses to, the record returned holds each  *)
(* of the four category keys with a list; a category that was missing or no   *)
(* list is the empty list, and a category that was a list is kept.            *)
C9_FourLists ==
    st_pc = "done" =>
        /\ \A k \in CategorySet : st_result.cats[k].t = "list"
        /\ st_out.kind = "value" /\ st_out.text.type = "object" =>
              \A k \in CategorySet :
                  st_result.cats[k] =
                      IF st_out.text.cats[k].t = "list" THEN st_out.text.cats[k]
                      ELSE ListOf(<<>>)
        /\ ~(st_out.kind = "value" /\ st_out.text.type = "object") =>
              \A k \in CategorySet : st_result.cats[k] = ListOf(<<>>)

\* an object without boosters, with a null attitude_markers and with hedges
\* came back with both filled in and the hedges kept
C9_Witness ==
    /\ st_pc = "done"
    /\ st_out.kind = "value"
    /\ st_out.text.type = "object"
    /\ st_out.text.cats["boosters"].t = "absent"
    /\ st_out.text.cats["attitude_markers"].t = "null"
    /\ st_out.text.cats["hedges"] = ListOf(<<"entry">>)
    /\ st_result.cats["boosters"] = ListOf(<<>>)
    /\ st_result.cats["attitude_markers"] = ListOf(<<>>)
    /\ st_result.cats["hedges"] = ListOf(<<"entry">>)

----------------------------------------------------------------------------
(* Properties of run_pipeline *)

\* the exceptions for which no fallback is defined: an unreadable file, a
\* missing API key, a service call that failed after retries and fallback
NoFallbackErrors == {"DocumentOpenError", "RuntimeError", "ServiceError"}

\* a stance response that is not the expected structured shape
MalformedStance(out) ==
    \/ out.kind # "value"
    \/ out.text.type # "object"
    \/ \E k \in CategorySet :
          \/ out.text.cats[k].t \notin {"absent", "list"}
          \/ \E j \in 1..Len(out.text.cats[k].elems) : out.text.cats[k].elems[j] # "entry"

(* C10: a malformed response never aborts the run.  A run is aborted only by  *)
(* an error without fallback; a chunk whose response could not be used adds   *)
(* no candidate and the later chunks are still gone through; and a run that   *)
(* got only answers (no service failure) ends with the three files written.   *)
C10_MalformedNeverAborts ==
    /\ pl_pc = "failed" => pl_error \in NoFallbackErrors
    /\ pl_pc \in {"stance", "done"} => pl_ci = Len(pl_chunks)
    /\ pl_pc = "done" => \A f \in FileNames : pl_files[f].written

\* the part of C10 about segmentation alone, which the code keeps: whatever the
\* responses, a run that passed the key check goes through every chunk
C10_EveryChunkProcessed ==
    pl_pc \in {"stance", "done"} =>
        /\ pl_ci = Len(pl_chunks)
        /\ pl_files["segmentation.json"] = File(pl_seg)

----------------------------------------------------------------------------
(* Properties of generate_json *)

LogIndexes(evs) == {i \in 1..Len(g_log) : g_log[i].ev \in evs}
PrimaryEvents == {"primary_ok", "primary_transient", "primary_fatal"}
FallbackEvents == {"fallback_ok", "fallback_failed"}

\* the parts of C11 that do not depend on how the primary attempts ended: at
\* most MAX_RETRIES primary calls, a sleep of at most 15 s right after every
\* transient failure, at most one fallback call, made after the last primary
\* call
RetryDiscipline ==
    /\ Cardinality(LogIndexes(PrimaryEvents)) <= MAX_RETRIES
    /\ Cardinality(LogIndexes(PrimaryEvents)) = g_attempt
    /\ \A i \in LogIndexes({"primary_transient"}) :
          /\ i < Len(g_log)
          /\ g_log[i + 1].ev = "sleep"
          /\ g_log[i + 1].v <= SleepCapTenths
    /\ Cardinality(LogIndexes(FallbackEvents)) <= 1
    /\ \A i \in LogIndexes(FallbackEvents) : \A j \in LogIndexes(PrimaryEvents) : j < i

(* C11 as stated: within one generate_json call the primary model is invoked  *)
(* at most MAX_RETRIES times, every transient failure is followed by a sleep  *)
(* of at most 15 s, the fallback model is invoked at most once and only after *)
(* the MAX_RETRIES primary attempts have been used up, and the failure is     *)
(* raised to the caller only after the retries and the fallback have failed.  *)
C11_Original ==
    /\ RetryDiscipline
    /\ LogIndexes(FallbackEvents) # {} => g_attempt = MAX_RETRIES
    /\ g_pc = "raised" => /\ g_attempt = MAX_RETRIES
                          /\ LogIndexes({"fallback_failed"}) # {}

(* C11 amended: as above, but the primary attempts end either with the        *)
(* MAX_RETRIES-th transient failure or with the first failure that is not     *)
(* transient (never retried); the fallback model is called only then, and     *)
(* only when it is configured and differs from the primary model; the failure *)
(* is raised only after the primary attempts ended in failure and the         *)
(* fallback call, if one was made, failed.                                    *)
C11_Amended ==
    /\ RetryDiscipline
    /\ g_pc \in {"fallback", "raised"} \/ LogIndexes(FallbackEvents) # {} =>
          /\ g_attempt >= 1
          /\ g_log[Len(g_log)].ev # "primary_ok"
          /\ \/ g_attempt = MAX_RETRIES /\ LogIndexes({"primary_fatal"}) = {}
             \/ LogIndexes({"primary_fatal"}) = {2 * g_attempt - 1}
    /\ LogIndexes(FallbackEvents) # {} => HasFallback(g_model)
    /\ g_pc = "raised" =>
          IF HasFallback(g_model) THEN g_log[Len(g_log)].ev = "fallback_failed"
          ELSE LogIndexes(FallbackEvents) = {}

\* MAX_RETRIES transient failures, the last sleep at the ceiling, then a
\* failed fallback call and the error raised
C11_Witness ==
    /\ g_pc = "raised"
    /\ g_attempt = MAX_RETRIES
    /\ LogIndexes({"primary_transient"}) = {2 * k - 1 : k \in 1..MAX_RETRIES}
    /\ g_log[2 * MAX_RETRIES].v = SleepCapTenths
    /\ g_log[Len(g_log)].ev = "fallback_failed"

\* the run has been aborted by an error for which no fallback is defined
AbortedWithoutFallback == pl_pc = "failed" /\ pl_error \in NoFallbackErrors

(* C12: when an error without fallback occurs (unreadable PDF, missing key,   *)
(* an AI call failing after retries and fallback), run_pipeline reports it    *)
(* as its last status message and re-raises it, runs no later stage, never    *)
(* reports progress 100 or "Done", and the step that fails leaves every       *)
(* output file as it was.                                                     *)
C12_AbortKeepsFiles ==
    /\ [](AbortedWithoutFallback =>
            /\ pl_status # <<>>
            /\ pl_status[Len(pl_status)] = "Error"
            /\ \A i \in 1..Len(pl_status) : pl_status[i] # "Done"
            /\ \A i \in 1..Len(pl_progress) : pl_progress[i] # 100
            /\ ~pl_files["stance.csv"].written)
    \* no step is taken once aborted, and the step that aborts writes nothing
    /\ [][/\ ~AbortedWithoutFallback
          /\ AbortedWithoutFallback' =>
                /\ pl_files' = pl_files
                /\ pl_progress' \in {pl_progress, Append(pl_progress, 10),
                                     Append(pl_progress, 40)}
                /\ pl_seg' = pl_seg /\ pl_stance' = pl_stance]_vars

\* the AI call of the second section fails: segmentation.json is there, as
\* written, and stance.json was never written
C12_Witness ==
    /\ AbortedWithoutFallback
    /\ pl_error = "ServiceError"
    /\ pl_idx >= 1
    /\ pl_stance # <<>>
    /\ pl_files["segmentation.json"] = File(pl_seg)
    /\ ~pl_files["stance.json"].written

----------------------------------------------------------------------------
(* Properties of header and footer removal *)

\* the page is a running head, then content, then a standalone page number
HeadedPage(text) ==
    LET lines == StrippedLines(text) IN
    /\ Len(lines) >= 3
    /\ lines[1] = RunningHead
    /\ \A j \in 2..(Len(lines) - 1) : lines[j] # RunningHead /\ ~IsPageNumber(lines[j])
    /\ IsPageNumber(lines[Len(lines)])

\* the content lines of a headed page
ContentOf(text) ==
    LET lines == StrippedLines(text) IN SubSeq(lines, 2, Len(lines) - 1)

\* every page is a headed page and no two pages have the same content
RunningHeadDocument ==
    /\ Len(h_pages) >= 2
    /\ \A j \in 1..Len(h_pages) : HeadedPage(h_pages[j].text)
    /\ \A j, k \in 1..Len(h_pages) :
          j # k => ContentOf(h_pages[j].text) # ContentOf(h_pages[k].text)

(* C13: for a document whose pages all start with the same running head,      *)
(* go on with page-specific content and end with a page-number line, the      *)
(* header pattern found is the running head, and no cleaned page has the      *)
(* running head as a line.                                                    *)
C13_RunningHeadDropped ==
    h_pc = "done" /\ RunningHeadDocument =>
        /\ h_patterns.header = RunningHead
        /\ \A j \in 1..Len(h_cleaned) :
              \A k \in 1..Len(SplitLines(h_cleaned[j].text)) :
                  Strip(SplitLines(h_cleaned[j].text)[k]) # RunningHead

\* what the code does remove whatever the document: blank lines and
\* page-number lines
C13_NumbersDropped ==
    h_pc = "done" =>
        \A j \in 1..Len(h_cleaned) :
            \A k \in 1..Len(SplitLines(h_cleaned[j].text)) :
                LET s == Strip(SplitLines(h_cleaned[j].text)[k]) IN
                s # <<>> /\ ~IsPageNumber(s)

----------------------------------------------------------------------------
(* Properties of the normalization of one candidate *)

IsInt(raw) == raw.k = "int"

(* C14: a candidate that is no dict or whose title is empty after trimming    *)
(* is discarded; any other is kept with positive integer pages in order:      *)
(* end_page is start_page when it was absent or no integer, a pair given in   *)
(* order with a positive start is kept as given, and a pair given out of      *)
(* order is clamped to the (positive) start page.                             *)
C14_Normalized ==
    n_pc = "done" =>
        IF ~n_item.isdict \/ \A j \in 1..Len(n_item.title) : IsSpace(n_item.title[j])
        THEN n_groups = <<>>
        ELSE /\ Len(n_groups) = 1
             /\ LET g == n_groups[1]
                    sp == n_item.start_page
                    ep == n_item.end_page
                IN /\ g.start_page \in Nat /\ g.end_page \in Nat
                   /\ 1 <= g.start_page /\ g.start_page <= g.end_page
                   /\ ~IsInt(ep) => g.end_page = g.start_page
                   /\ IsInt(sp) /\ sp.v >= 1 => g.start_page = sp.v
                   /\ ~IsInt(sp) \/ sp.v < 1 => g.start_page = 1
                   /\ IsInt(ep) /\ ep.v >= g.start_page => g.end_page = ep.v
                   /\ IsInt(ep) /\ ep.v < g.start_page => g.end_page = g.start_page

\* a candidate reported as pages 3 to 1 is kept as pages 3 to 3
C14_Witness ==
    /\ n_pc = "done"
    /\ n_item.start_page = RawInt(3)
    /\ n_item.end_page = RawInt(1)
    /\ Len(n_groups) = 1
    /\ n_groups[1].start_page = 3
    /\ n_groups[1].end_page = 3

----------------------------------------------------------------------------
(* Properties of chunk_text_for_model on text with page markers *)

\* offset pos lies strictly inside a page marker of the text
InsideMarker(text, pos) ==
    \E i \in 0..Len(text) :
        /\ MarkerAt(text, i).ok
        /\ i < pos
        /\ pos < MarkerAt(text, i).end

\* a paragraph break lies in the part of the window of a chunk that may be
\* cut at: more than 30% of the target after its start
BreakInWindow(text, start) ==
    \E b \in (start + MinBreakOffset(c_target) + 1)..(Min2(start + c_target, Len(text)) - 2) :
        ParaBreakAt(text, b)

(* C15: no chunk begins or ends inside a page marker, and a chunk ends at a   *)
(* paragraph break whenever one lies in the allowed part of its window.       *)
C15_MarkersIntact ==
    c_pc = "done" =>
        \A i \in 1..Len(c_chunks) :
            /\ ~InsideMarker(c_text, c_chunks[i].start)
            /\ ~InsideMarker(c_text, c_chunks[i].stop)
            /\ BreakInWindow(c_text, c_chunks[i].start) =>
                  ParaBreakAt(c_text, c_chunks[i].stop)

\* the part of C15 the code keeps: the paragraph-break rule
C15_BreakPreferred ==
    c_pc = "done" =>
        \A i \in 1..Len(c_chunks) :
            BreakInWindow(c_text, c_chunks[i].start) => ParaBreakAt(c_text, c_chunks[i].stop)

----------------------------------------------------------------------------
(* Properties of the scan of parse_json_str *)

\* the scan as the claim words it: quoted-string state is followed from the
\* first character of the candidate on, so that a bracket inside a string
\* never starts the region
RECURSIVE ScanTrackingStrings(_, _, _, _, _, _)
ScanTrackingStrings(candidate, i, start, depth, in_str, esc) ==
    IF i > Len(candidate) THEN JsonLoads(candidate)
    ELSE LET ch == candidate[i] IN
         IF in_str
         THEN ScanTrackingStrings(candidate, i + 1, start, depth,
                                  esc \/ ch # "\"", ~esc /\ ch = "\\")
         ELSE IF ch = "\"" THEN ScanTrackingStrings(candidate, i + 1, start, depth, TRUE, FALSE)
         ELSE IF ch \in {"[", "{"}
              THEN ScanTrackingStrings(candidate, i + 1, IF start = 0 THEN i ELSE start,
                                       depth + 1, FALSE, FALSE)
         ELSE IF ch \in {"]", "}"} /\ start # 0
              THEN IF depth = 1 THEN JsonLoads(SubSeq(candidate, start, i))
                   ELSE ScanTrackingStrings(candidate, i + 1, start, depth - 1, FALSE, FALSE)
         ELSE ScanTrackingStrings(candidate, i + 1, start, depth, FALSE, FALSE)

(* C16: on a response without code fence, parse_json_str parses exactly the   *)
(* region from the first opening bracket outside any double-quoted string to  *)
(* the position where the depth first returns to zero, brackets inside        *)
(* strings neither starting the region nor changing the depth.                *)
C16_RegionOutsideStrings ==
    (p_pc = "done" /\ FenceIndexes(p_s) = {}) =>
        p_result = ScanTrackingStrings(Strip(p_s), 1, 0, 0, FALSE, FALSE)

\* the part of C16 the code keeps: once the region has started outside a
\* string, the code and the claim's scan agree
C16_AgreeFromTopLevelStart ==
    (/\ p_pc = "done"
     /\ FenceIndexes(p_s) = {}
     /\ \A i \in 1..Len(p_s) : p_s[i] = "\"" => \E j \in 1..(i - 1) : p_s[j] \in {"[", "{"})
        => p_result = ScanTrackingStrings(Strip(p_s), 1, 0, 0, FALSE, FALSE)

----------------------------------------------------------------------------
(* Properties of the progress reports of run_pipeline *)

(* C17: every value passed to the progress callback lies in 0..100, the       *)
(* values never decrease, whatever the number of sections and with or without *)
(* the conclusion filter, and a run that completes reports 100 last.          *)
C17_ProgressMonotone ==
    /\ \A i \in 1..Len(pl_progress) : pl_progress[i] \in 0..100
    /\ \A i \in 1..(Len(pl_progress) - 1) : pl_progress[i] <= pl_progress[i + 1]
    /\ pl_pc = "done" => /\ pl_progress # <<>>
                         /\ pl_progress[Len(pl_progress)] = 100
                         /\ Len(pl_progress) = 3 + Len(pl_seg)

\* a completed run with the conclusion filter on: of two sections the first
\* was skipped and the second analysed, each with its progress report
C17_Witness ==
    /\ pl_pc = "done"
    /\ pl_only
    /\ Len(pl_seg) = 2
    /\ Len(pl_stance) = 1
    /\ pl_progress = <<10, 40, 77, 95, 100>>

----------------------------------------------------------------------------
(* Properties of _reconcile_sections: coverage *)

\* the page lies in the range of some returned section
CoveredPage(p) ==
    \E i \in 1..Len(r_merged) : r_merged[i].start_page <= p /\ p <= r_merged[i].end_page

(* C18: every page in the normalized range of a kept candidate lies in the    *)
(* range of some returned section.                                            *)
C18_NoPageLost ==
    r_pc = "done" => \A kp \in r_reported : CoveredPage(kp[2])

\* a returned list in which a page a candidate reported is outside the section
\* of its own title (overlap resolution took it away) and inside another one
C18_Witness ==
    /\ r_pc = "done"
    /\ \E kp \in r_reported :
          /\ \A i \in SectionsWithKey(kp[1]) :
                kp[2] < r_merged[i].start_page \/ kp[2] > r_merged[i].end_page
          /\ \E i \in 1..Len(r_merged) :
                /\ TitleKey(r_merged[i].title) # kp[1]
                /\ r_merged[i].start_page <= kp[2]
                /\ kp[2] <= r_merged[i].end_page

\*%% properties above
====
